---- MODULE Spec2Model ----
(***************************************************************************)
(* Start-up of the hybrid BigQuery / Vertex AI Search agent.               *)
(*                                                                         *)
(* The program is two module bodies that Python executes top to bottom,    *)
(* once: app/agent.py, whose import on line 31 runs app/config.py.  The    *)
(* state is the process environment (os.environ), the .env file, the wall  *)
(* clock, the two module namespaces and the position in the module bodies. *)
(* A Python value is a record: None, Str(s), or Unbound for a global that  *)
(* no statement has assigned yet.                                          *)
(***************************************************************************)
EXTENDS Naturals, Sequences, FiniteSets, TLC

VARIABLES
    environ0,   \* os.environ as the interpreter found it, before config.py ran
    environ,    \* os.environ: a mapping from the names that are set to strings
    dotenv,     \* the key/value pairs of the .env file load_dotenv() reads
    clock,      \* the wall clock, in whole days since 1970-01-01
    pc,         \* the statement about to run: "<module>:<line>", "done", "failed"
    error,      \* the exception that ended the import, if any
    nchanges,   \* how many times the environment was changed after start-up
    config,     \* the globals of app/config.py
    agent       \* the globals of app/agent.py

vars == <<environ0, environ, dotenv, clock, pc, error, nchanges, config, agent>>

----------------------------------------------------------------------------
(* Bounds of the model. *)

\* At most this many entries in the initial environment and the .env file together.
MaxSet == 2
\* At most this many midnights pass while the model runs.
MaxDays == 1
\* At most this many changes of the environment after start-up.
MaxEnvChanges == 1

----------------------------------------------------------------------------
(* Python values. *)

None == [t |-> "NoneType"]
Str(s) == [t |-> "str", v |-> s]
Unbound == [t |-> "unbound"]

\* What an f-string writes for {value}: str(value).
format(value) == IF value.t = "str" THEN value.v ELSE "None"

----------------------------------------------------------------------------
(* The process environment. *)

SettingNames ==
    {"MODEL_NAME", "BQ_DATASET_ID", "BQ_TABLE_ID", "BQ_LOCATION",
     "DATA_STORE_ID", "DATA_STORE_REGION", "VERTEX_AI_SEARCH_DATASTORE"}

GoogleNames ==
    {"GOOGLE_CLOUD_PROJECT", "GOOGLE_CLOUD_LOCATION", "GOOGLE_GENAI_USE_VERTEXAI"}

EnvNames == SettingNames \cup GoogleNames

\* The values a variable takes in the environments the model starts from.
EnvValues(name) ==
    CASE name = "MODEL_NAME" -> {"", "gemini-2.5-flash"}
      [] name = "BQ_DATASET_ID" -> {"vendor_ds"}
      [] name = "BQ_TABLE_ID" -> {"spend"}
      [] name = "BQ_LOCATION" -> {"EU"}
      [] name = "DATA_STORE_ID" -> {"contracts"}
      [] name = "DATA_STORE_REGION" -> {"eu"}
      [] name = "VERTEX_AI_SEARCH_DATASTORE" -> {"", "projects/x/locations/us/collections/c/dataStores/y"}
      [] name = "GOOGLE_CLOUD_PROJECT" -> {"env-project"}
      [] name = "GOOGLE_CLOUD_LOCATION" -> {"us-central1"}
      [] name = "GOOGLE_GENAI_USE_VERTEXAI" -> {"False"}

\* The names a .env file of the model may hold, and the value it gives each.
DotenvNames == {"GOOGLE_CLOUD_PROJECT", "GOOGLE_CLOUD_LOCATION", "MODEL_NAME"}

DotenvValue(name) ==
    CASE name = "GOOGLE_CLOUD_PROJECT" -> "dotenv-project"
      [] name = "GOOGLE_CLOUD_LOCATION" -> "europe-west4"
      [] name = "MODEL_NAME" -> "gemini-2.5-pro"

\* Every mapping from a set of at most n of the names to their values.
Environments(n) ==
    UNION {{f \in [S -> UNION {EnvValues(k) : k \in S}] : \A k \in S : f[k] \in EnvValues(k)} :
             S \in {T \in SUBSET EnvNames : Cardinality(T) <= n}}

\* Every .env file of the model.
DotenvFiles == UNION {[S -> {DotenvValue(k) : k \in S}] : S \in SUBSET DotenvNames}

\* Variant: os.getenv(key) or default, which also replaces an empty value.
getenv_or(env, key, default) ==
    IF key \in DOMAIN env /\ env[key] # "" THEN Str(env[key]) ELSE default

\* os.getenv(key, default): the value when the key is set, the empty string
\* included, and the default (None when not given) otherwise.
getenv(env, key, default) ==
    IF key \in DOMAIN env THEN Str(env[key]) ELSE default

\* os.environ[key] = value
setitem(env, key, value) ==
    [k \in DOMAIN env \cup {key} |-> IF k = key THEN value ELSE env[k]]

\* del os.environ[key]
delitem(env, key) == [k \in DOMAIN env \ {key} |-> env[k]]

\* Variant: a setdefault that stores str(value) and so never raises.
setdefault_raises_lenient(env, key, value) == FALSE

\* os.environ.setdefault(key, value) stores the value only when the key is not
\* set; storing anything but a str raises TypeError.
setdefault_raises(env, key, value) == key \notin DOMAIN env /\ value.t # "str"

setdefault(env, key, value) ==
    IF key \in DOMAIN env THEN env ELSE setitem(env, key, format(value))

\* load_dotenv(): every pair of the file whose key is not set yet goes into
\* the environment (override is False); a key that is set keeps its value.
load_dotenv(env, file) ==
    [k \in DOMAIN env \cup DOMAIN file |-> IF k \in DOMAIN env THEN env[k] ELSE file[k]]

----------------------------------------------------------------------------
(* google.auth.default(): it raises DefaultCredentialsError when it finds no *)
(* credentials, and returns the credentials and a project id otherwise; the  *)
(* project id is None when none can be determined.                           *)

Projects == {"adc-project"}

ADC == [t |-> "Credentials"]

AuthOutcomes ==
    {[ok |-> FALSE, credentials |-> None, project_id |-> None]}
        \cup {[ok |-> TRUE, credentials |-> ADC, project_id |-> p] :
                p \in {None} \cup {Str(q) : q \in Projects}}

----------------------------------------------------------------------------
(* date.today().strftime("%Y-%m-%d") *)

IsLeap(y) == (y % 4 = 0 /\ y % 100 # 0) \/ y % 400 = 0

DaysInYear(y) == IF IsLeap(y) THEN 366 ELSE 365

DaysInMonth(y, m) ==
    IF m = 2 THEN (IF IsLeap(y) THEN 29 ELSE 28)
    ELSE IF m \in {4, 6, 9, 11} THEN 30 ELSE 31

RECURSIVE MonthDay(_, _, _)
MonthDay(y, m, n) ==
    IF n < DaysInMonth(y, m) THEN [year |-> y, month |-> m, day |-> n + 1]
    ELSE MonthDay(y, m + 1, n - DaysInMonth(y, m))

RECURSIVE YearDay(_, _)
YearDay(y, n) ==
    IF n < DaysInYear(y) THEN MonthDay(y, 1, n) ELSE YearDay(y + 1, n - DaysInYear(y))

\* The civil date of a day count since 1970-01-01.
date_today(days) == YearDay(1970, days)

Digit(n) == SubSeq("0123456789", n + 1, n + 1)

Pad2(n) == Digit((n \div 10) % 10) \o Digit(n % 10)

Pad4(n) == Pad2(n \div 100) \o Pad2(n % 100)

\* "%Y-%m-%d": four digits of year, two of month, two of day.
strftime(d) == Pad4(d.year) \o "-" \o Pad2(d.month) \o "-" \o Pad2(d.day)

\* The day the model starts on: 2025-12-31.
StartDays == {20453}

----------------------------------------------------------------------------
(* The instruction text.  SANY's lexer rejects a grave accent inside a string, *)
(* so each grave accent of the source is written as an apostrophe here; every  *)
(* length and offset is that of the source.                                    *)

\* agent.py:54-58: literal text of the f-string, 186 characters.
Text0 ==
    "\n"
    \o "You are a Hybrid Analysis Agent capable of answering complex questions by correlating\n"
    \o "structured data from BigQuery with unstructured documents from Vertex AI Search.\n"
    \o "\n"
    \o "Today's date is: "

\* agent.py:58-64: literal text of the f-string, 127 characters.
Text1 ==
    "\n"
    \o "\n"
    \o "<YOUR_CAPABILITIES>\n"
    \o "You have access to TWO complementary data sources:\n"
    \o "\n"
    \o "1. **Structured Database (BigQuery)**:\n"
    \o "   - Project: "

\* agent.py:64-65: literal text of the f-string, 15 characters.
Text2 ==
    "\n"
    \o "   - Dataset: "

\* agent.py:65-66: literal text of the f-string, 13 characters.
Text3 ==
    "\n"
    \o "   - Table: "

\* agent.py:66-81: literal text of the f-string, 516 characters.
Text4 ==
    "\n"
    \o "   \n"
    \o "   Contains structured records. You can query this to identify specific entities,\n"
    \o "   metrics, or trends.\n"
    \o "\n"
    \o "2. **Unstructured Documents (Vertex AI Search)**:\n"
    \o "   Contains documents, reports, or other unstructured text that provides\n"
    \o "   qualitative context, details, and ground truth information not found in the database.\n"
    \o "\n"
    \o "</YOUR_CAPABILITIES>\n"
    \o "\n"
    \o "<YOUR_TOOLS>\n"
    \o "\n"
    \o "**BigQuery Tools** (for structured data):\n"
    \o "- 'execute_sql': Run SQL queries to filter, aggregate, and retrieve specific records.\n"
    \o "  - Example: \"SELECT * FROM "

\* agent.py:81-81: literal text of the f-string, 1 characters.
Text5 ==
    "."

\* agent.py:81-124: literal text of the f-string, 1758 characters.
Text6 ==
    " WHERE <condition> LIMIT 10\"\n"
    \o "- 'ask_data_insights': Ask natural language questions about the data schema or content.\n"
    \o "- 'get_table_info': specific details about table schemas.\n"
    \o "\n"
    \o "**Document Search Tools** (for unstructured data):\n"
    \o "- 'search_documents': Search the document repository for qualitative information.\n"
    \o "  - Use specific queries related to the entities found in your BigQuery analysis.\n"
    \o "  - Returns: Relevant excerpts from documents.\n"
    \o "\n"
    \o "</YOUR_TOOLS>\n"
    \o "\n"
    \o "<YOUR_WORKFLOW>\n"
    \o "\n"
    \o "When asked to perform an analysis, follow this general approach:\n"
    \o "\n"
    \o "1. **Explore Structured Data**:\n"
    \o "   - Use 'get_table_info' to understand the schema if needed.\n"
    \o "   - Use 'execute_sql' or 'ask_data_insights' to retrieve relevant records,\n"
    \o "     identify key entities, or filter based on the user's criteria.\n"
    \o "\n"
    \o "2. **Deep Dive with Unstructured Search**:\n"
    \o "   - For the entities or topics identified in Step 1, use 'search_documents'.\n"
    \o "   - Formulate specific search queries to find detailed information, context,\n"
    \o "     or verification from the documents.\n"
    \o "\n"
    \o "3. **Synthesize Findings**:\n"
    \o "   - Combine the quantitative facts from BigQuery with the qualitative insights\n"
    \o "     from Vertex AI Search.\n"
    \o "   - clearly distinguish between what the database says and what the documents say.\n"
    \o "   - Provide a comprehensive answer that addresses the user's specific question.\n"
    \o "\n"
    \o "</YOUR_WORKFLOW>\n"
    \o "\n"
    \o "<IMPORTANT_NOTES>\n"
    \o "\n"
    \o "- **Hybrid Search is Key**: The database gives you the \"what\" and \"how much\",\n"
    \o "  while the documents give you the \"why\" and \"details\".\n"
    \o "- **Cross-Verification**: Use the documents to verify or expand upon the\n"
    \o "  information found in the database.\n"
    \o "- **Be Adaptable**: Your analysis depends on the user's domain. Adapt your\n"
    \o "  queries and searches to the specific context of the request.\n"
    \o "\n"
    \o "</IMPORTANT_NOTES>\n"

\* Variant: the dataset and the table exchanged.
InstructionSwapped(today, project, dataset, table) ==
    Text0 \o today \o Text1 \o format(project) \o Text2 \o format(table)
        \o Text3 \o format(dataset) \o Text4 \o format(table) \o Text5
        \o format(dataset) \o Text6

\* The f-string of agent.py:54-124 with its six replacement fields.
Instruction(today, project, dataset, table) ==
    Text0 \o today \o Text1 \o format(project) \o Text2 \o format(dataset)
        \o Text3 \o format(table) \o Text4 \o format(dataset) \o Text5
        \o format(table) \o Text6

----------------------------------------------------------------------------
(* Settings resolution, config.py:19-33. *)

DefaultModelName == "gemini-3-pro-preview"
DefaultBqLocation == "us-central1"
DefaultDataStoreRegion == "global"

\* Variant: the region and the datastore id exchanged in the template.
DatastorePathSwapped(project, region, datastore) ==
    "projects/" \o format(project) \o "/locations/" \o format(datastore)
        \o "/collections/default_collection/dataStores/" \o format(region)

\* The f-string of config.py:32.
DatastorePath(project, region, datastore) ==
    "projects/" \o format(project) \o "/locations/" \o format(region)
        \o "/collections/default_collection/dataStores/" \o format(datastore)

\* Variant: the override is used only when no datastore id is configured.
ResolveDatastoreIdFirst(env, project, region, datastore) ==
    IF datastore.t = "str" THEN Str(DatastorePath(project, region, datastore))
    ELSE getenv(env, "VERTEX_AI_SEARCH_DATASTORE",
                Str(DatastorePath(project, region, datastore)))

\* config.py:30-33: the override when set, the synthesized path otherwise.
ResolveDatastore(env, project, region, datastore) ==
    getenv(env, "VERTEX_AI_SEARCH_DATASTORE",
           Str(DatastorePath(project, region, datastore)))

ConfigNames ==
    {"PROJECT_ID", "MODEL_NAME", "BQ_DATASET_ID", "BQ_TABLE_ID", "BQ_LOCATION",
     "DATA_STORE_ID", "DATA_STORE_REGION", "VERTEX_AI_SEARCH_DATASTORE"}

----------------------------------------------------------------------------
(* The objects agent.py builds. *)

WriteMode == {"BLOCKED", "PROTECTED", "ALLOWED"}

BigQueryToolConfig(write_mode) == [t |-> "BigQueryToolConfig", write_mode |-> write_mode]

\* Variant: a tool configuration that allows writes.
BqToolConfigWritable == BigQueryToolConfig("ALLOWED")

\* agent.py:40
BqToolConfig == BigQueryToolConfig("BLOCKED")

BigQueryCredentialsConfig(creds) == [t |-> "BigQueryCredentialsConfig", credentials |-> creds]

DiscoveryEngineSearchTool(data_store_id) ==
    [t |-> "DiscoveryEngineSearchTool", data_store_id |-> data_store_id]

BigQueryToolset(credentials_config, bigquery_tool_config) ==
    [t |-> "BigQueryToolset", credentials_config |-> credentials_config,
     bigquery_tool_config |-> bigquery_tool_config]

Agent(name, model, instruction, tools) ==
    [t |-> "Agent", name |-> name, model |-> model, instruction |-> instruction,
     tools |-> tools, generate_content_config |-> [temperature |-> <<1, 10>>]]

App(root_agent, name) == [t |-> "App", root_agent |-> root_agent, name |-> name]

AgentNames ==
    {"credentials", "bq_tool_config", "bq_credentials_config", "search_tool",
     "bigquery_toolset", "INSTRUCTION", "root_agent", "app"}

----------------------------------------------------------------------------
(* The order of execution: agent.py imports config.py on line 31, config.py *)
(* runs to its end, and agent.py goes on.                                   *)

Program ==
    <<"agent:31",
      "config:10", "config:12", "config:13", "config:14", "config:15", "config:19",
      "config:22", "config:23", "config:24", "config:25", "config:28", "config:30",
      "agent:39", "agent:40", "agent:41", "agent:45", "agent:48", "agent:54",
      "agent:127", "agent:142">>

Index(label) == CHOOSE i \in 1..Len(Program) : Program[i] = label

\* Variant: the module bodies run again after the last statement.
AfterReexecuted(label) ==
    IF Index(label) = Len(Program) THEN Program[1] ELSE Program[Index(label) + 1]

\* The statement that follows a statement that completed.
After(label) ==
    IF Index(label) = Len(Program) THEN "done" ELSE Program[Index(label) + 1]

NoError == [type |-> "", at |-> ""]

Raise(type) == [type |-> type, at |-> pc]

----------------------------------------------------------------------------
(* The state before the interpreter runs agent.py. *)

Init ==
    /\ environ0 \in Environments(MaxSet)
    /\ dotenv \in DotenvFiles
    /\ Cardinality(DOMAIN environ0) + Cardinality(DOMAIN dotenv) <= MaxSet
    /\ environ = environ0
    /\ clock \in StartDays
    /\ pc = Program[1]
    /\ error = NoError
    /\ nchanges = 0
    /\ config = [n \in ConfigNames |-> Unbound]
    /\ agent = [n \in AgentNames |-> Unbound]

world == <<environ0, dotenv, clock, nchanges>>

\* A statement that binds one global of config.py and changes nothing else.
ConfigBinds(name, value) ==
    /\ config' = [config EXCEPT ![name] = value]
    /\ pc' = After(pc)
    /\ UNCHANGED <<world, environ, error, agent>>

\* A statement that binds one global of agent.py and changes nothing else.
AgentBinds(name, value) ==
    /\ agent' = [agent EXCEPT ![name] = value]
    /\ pc' = After(pc)
    /\ UNCHANGED <<world, environ, error, config>>

\* An exception no statement catches ends the import.
Fails(type) ==
    /\ pc' = "failed"
    /\ error' = Raise(type)
    /\ UNCHANGED <<world, environ, config, agent>>

----------------------------------------------------------------------------
(* app/config.py *)

\* agent.py:31, from app.config import ...: config.py starts.
Agent_import_config ==
    /\ pc = "agent:31"
    /\ pc' = After("agent:31")
    /\ UNCHANGED <<world, environ, error, config, agent>>

\* config.py:10
Config_load_dotenv ==
    /\ pc = "config:10"
    /\ environ' = load_dotenv(environ, dotenv)
    /\ pc' = After("config:10")
    /\ UNCHANGED <<world, error, config, agent>>

\* config.py:12
Config_PROJECT_ID ==
    /\ pc = "config:12"
    /\ \E r \in AuthOutcomes :
          IF r.ok THEN ConfigBinds("PROJECT_ID", r.project_id)
          ELSE Fails("DefaultCredentialsError")

\* config.py:13
Config_setdefault_project ==
    /\ pc = "config:13"
    /\ IF setdefault_raises(environ, "GOOGLE_CLOUD_PROJECT", config["PROJECT_ID"])
       THEN Fails("TypeError")
       ELSE /\ environ' = setdefault(environ, "GOOGLE_CLOUD_PROJECT", config["PROJECT_ID"])
            /\ pc' = After("config:13")
            /\ UNCHANGED <<world, error, config, agent>>

\* Variant: the location is stored only when it is not set.
Config_set_location_setdefault ==
    /\ pc = "config:14"
    /\ environ' = setdefault(environ, "GOOGLE_CLOUD_LOCATION", Str("global"))
    /\ pc' = After("config:14")
    /\ UNCHANGED <<world, error, config, agent>>

\* config.py:14
Config_set_location ==
    /\ pc = "config:14"
    /\ environ' = setitem(environ, "GOOGLE_CLOUD_LOCATION", "global")
    /\ pc' = After("config:14")
    /\ UNCHANGED <<world, error, config, agent>>

\* config.py:15
Config_set_use_vertexai ==
    /\ pc = "config:15"
    /\ environ' = setitem(environ, "GOOGLE_GENAI_USE_VERTEXAI", "True")
    /\ pc' = After("config:15")
    /\ UNCHANGED <<world, error, config, agent>>

\* config.py:19
Config_MODEL_NAME ==
    /\ pc = "config:19"
    /\ ConfigBinds("MODEL_NAME", getenv(environ, "MODEL_NAME", Str(DefaultModelName)))

\* config.py:22
Config_BQ_DATASET_ID ==
    /\ pc = "config:22"
    /\ ConfigBinds("BQ_DATASET_ID", getenv(environ, "BQ_DATASET_ID", None))

\* config.py:23
Config_BQ_TABLE_ID ==
    /\ pc = "config:23"
    /\ ConfigBinds("BQ_TABLE_ID", getenv(environ, "BQ_TABLE_ID", None))

\* config.py:24
Config_BQ_LOCATION ==
    /\ pc = "config:24"
    /\ ConfigBinds("BQ_LOCATION", getenv(environ, "BQ_LOCATION", Str(DefaultBqLocation)))

\* config.py:25
Config_DATA_STORE_ID ==
    /\ pc = "config:25"
    /\ ConfigBinds("DATA_STORE_ID", getenv(environ, "DATA_STORE_ID", None))

\* config.py:28
Config_DATA_STORE_REGION ==
    /\ pc = "config:28"
    /\ ConfigBinds("DATA_STORE_REGION",
                   getenv(environ, "DATA_STORE_REGION", Str(DefaultDataStoreRegion)))

\* config.py:30-33
Config_VERTEX_AI_SEARCH_DATASTORE ==
    /\ pc = "config:30"
    /\ ConfigBinds("VERTEX_AI_SEARCH_DATASTORE",
                   ResolveDatastore(environ, config["PROJECT_ID"],
                                    config["DATA_STORE_REGION"], config["DATA_STORE_ID"]))

----------------------------------------------------------------------------
(* app/agent.py *)

\* Variant: the failure is recorded and the module body goes on.
Agent_credentials_swallowed ==
    /\ pc = "agent:39"
    /\ \E r \in AuthOutcomes :
          /\ agent' = [agent EXCEPT !["credentials"] = r.credentials]
          /\ pc' = After(pc)
          /\ error' = IF r.ok THEN error ELSE Raise("DefaultCredentialsError")
          /\ UNCHANGED <<world, environ, config>>

\* agent.py:39: the second resolution; its project id is discarded.
Agent_credentials ==
    /\ pc = "agent:39"
    /\ \E r \in AuthOutcomes :
          IF r.ok THEN AgentBinds("credentials", r.credentials)
          ELSE Fails("DefaultCredentialsError")

\* agent.py:40
Agent_bq_tool_config ==
    /\ pc = "agent:40"
    /\ AgentBinds("bq_tool_config", BqToolConfig)

\* agent.py:41
Agent_bq_credentials_config ==
    /\ pc = "agent:41"
    /\ AgentBinds("bq_credentials_config",
                  BigQueryCredentialsConfig(agent["credentials"]))

\* agent.py:45
Agent_search_tool ==
    /\ pc = "agent:45"
    /\ AgentBinds("search_tool",
                  DiscoveryEngineSearchTool(config["VERTEX_AI_SEARCH_DATASTORE"]))

\* agent.py:48-51
Agent_bigquery_toolset ==
    /\ pc = "agent:48"
    /\ AgentBinds("bigquery_toolset",
                  BigQueryToolset(agent["bq_credentials_config"], agent["bq_tool_config"]))

\* agent.py:54-124
Agent_INSTRUCTION ==
    /\ pc = "agent:54"
    /\ AgentBinds("INSTRUCTION",
                  Str(Instruction(strftime(date_today(clock)), config["PROJECT_ID"],
                                  config["BQ_DATASET_ID"], config["BQ_TABLE_ID"])))

\* agent.py:127-139
Agent_root_agent ==
    /\ pc = "agent:127"
    /\ AgentBinds("root_agent",
                  Agent("bqvaisadk", config["MODEL_NAME"], agent["INSTRUCTION"],
                        <<agent["bigquery_toolset"], agent["search_tool"]>>))

\* agent.py:142
Agent_app ==
    /\ pc = "agent:142"
    /\ AgentBinds("app", App(agent["root_agent"], "app"))

----------------------------------------------------------------------------
(* What happens around the program. *)

\* Midnight passes.
DayPasses ==
    /\ \E start \in StartDays : start <= clock /\ clock < start + MaxDays
    /\ clock' = clock + 1
    /\ UNCHANGED <<environ0, dotenv, nchanges, environ, pc, error, config, agent>>

\* After start-up something sets a variable of the environment to a new value.
EnvPut ==
    /\ pc = "done"
    /\ nchanges < MaxEnvChanges
    /\ nchanges' = nchanges + 1
    /\ \E k \in EnvNames :
          /\ getenv(environ, k, None) # Str("changed")
          /\ environ' = setitem(environ, k, "changed")
    /\ UNCHANGED <<environ0, dotenv, clock, pc, error, config, agent>>

\* After start-up something deletes a variable of the environment.
EnvDelete ==
    /\ pc = "done"
    /\ nchanges < MaxEnvChanges
    /\ nchanges' = nchanges + 1
    /\ \E k \in DOMAIN environ : environ' = delitem(environ, k)
    /\ UNCHANGED <<environ0, dotenv, clock, pc, error, config, agent>>

Next ==
    \/ Agent_import_config
    \/ Config_load_dotenv
    \/ Config_PROJECT_ID
    \/ Config_setdefault_project
    \/ Config_set_location
    \/ Config_set_use_vertexai
    \/ Config_MODEL_NAME
    \/ Config_BQ_DATASET_ID
    \/ Config_BQ_TABLE_ID
    \/ Config_BQ_LOCATION
    \/ Config_DATA_STORE_ID
    \/ Config_DATA_STORE_REGION
    \/ Config_VERTEX_AI_SEARCH_DATASTORE
    \/ Agent_credentials
    \/ Agent_bq_tool_config
    \/ Agent_bq_credentials_config
    \/ Agent_search_tool
    \/ Agent_bigquery_toolset
    \/ Agent_INSTRUCTION
    \/ Agent_root_agent
    \/ Agent_app
    \/ DayPasses
    \/ EnvPut
    \/ EnvDelete

Spec == Init /\ [][Next]_vars

----------------------------------------------------------------------------
(* Vocabulary of the properties. *)

Bound(ns, name) == ns[name] # Unbound

NoneBound(ns, names) == \A n \in names : ns[n] = Unbound

AllBound(ns, names) == \A n \in names : ns[n] # Unbound

\* The environment the settings are read from: the process environment, and
\* the .env file for the variables the process environment does not set.
EffectiveEnv ==
    [k \in DOMAIN environ0 \cup DOMAIN dotenv |->
        IF k \in DOMAIN environ0 THEN environ0[k] ELSE dotenv[k]]

\* config.py ran to its end and nothing changed the environment since.
ConfigFinished ==
    /\ AllBound(config, ConfigNames)
    /\ nchanges = 0

IsNumeral(s) == \A i \in 1..Len(s) : \E n \in 0..9 : SubSeq(s, i, i) = Digit(n)

DigitValue(c) == CHOOSE n \in 0..9 : Digit(n) = c

RECURSIVE NumeralValue(_)
NumeralValue(s) ==
    IF Len(s) = 0 THEN 0
    ELSE 10 * NumeralValue(SubSeq(s, 1, Len(s) - 1)) + DigitValue(SubSeq(s, Len(s), Len(s)))

\* The text holds the value at the offset, right after the label.
FieldAt(text, offset, label, value) ==
    /\ SubSeq(text, offset - Len(label), offset - 1) = label
    /\ SubSeq(text, offset, offset + Len(value) - 1) = value

\* The tools of an agent that are BigQuery toolsets.
BigQueryTools(a) == {a.tools[i] : i \in {j \in DOMAIN a.tools : a.tools[j].t = "BigQueryToolset"}}

----------------------------------------------------------------------------
(* C1 *)

\* C1: whatever the environment, the BigQuery toolset that is built, the one in
\* the agent's tool list and the one in the app's agent have write mode BLOCKED.
C1_WriteModeBlocked ==
    /\ Bound(agent, "bigquery_toolset") =>
          agent["bigquery_toolset"].bigquery_tool_config.write_mode = "BLOCKED"
    /\ Bound(agent, "root_agent") =>
          /\ BigQueryTools(agent["root_agent"]) # {}
          /\ \A tool \in BigQueryTools(agent["root_agent"]) :
                tool.bigquery_tool_config.write_mode = "BLOCKED"
    /\ Bound(agent, "app") =>
          /\ BigQueryTools(agent["app"].root_agent) # {}
          /\ \A tool \in BigQueryTools(agent["app"].root_agent) :
                tool.bigquery_tool_config.write_mode = "BLOCKED"

\* Start-up completed from an environment that sets two of the variables.
C1_Witness ==
    /\ pc = "done"
    /\ Cardinality(DOMAIN environ0) = 2
    /\ BigQueryTools(agent["app"].root_agent) # {}

----------------------------------------------------------------------------
(* C2 *)

\* C2: when VERTEX_AI_SEARCH_DATASTORE is set, the resolved setting is that
\* value, whatever the project id, the region and the datastore id are.
C2_OverrideVerbatim ==
    (/\ Bound(config, "VERTEX_AI_SEARCH_DATASTORE")
     /\ "VERTEX_AI_SEARCH_DATASTORE" \in DOMAIN EffectiveEnv)
        => config["VERTEX_AI_SEARCH_DATASTORE"] = Str(EffectiveEnv["VERTEX_AI_SEARCH_DATASTORE"])

\* The override and a datastore id are both set, and the setting is resolved.
C2_Witness ==
    /\ Bound(config, "VERTEX_AI_SEARCH_DATASTORE")
    /\ "VERTEX_AI_SEARCH_DATASTORE" \in DOMAIN environ0
    /\ "DATA_STORE_ID" \in DOMAIN environ0
    /\ config["PROJECT_ID"] # None

----------------------------------------------------------------------------
(* C3 *)

\* C3: when VERTEX_AI_SEARCH_DATASTORE is unset and the project id, the region
\* and the datastore id are strings, the resolved path is the template with the
\* three values in it, and the search tool is bound to that same path.
C3_SynthesizedPath ==
    (/\ Bound(config, "VERTEX_AI_SEARCH_DATASTORE")
     /\ "VERTEX_AI_SEARCH_DATASTORE" \notin DOMAIN EffectiveEnv
     /\ config["PROJECT_ID"].t = "str"
     /\ config["DATA_STORE_REGION"].t = "str"
     /\ config["DATA_STORE_ID"].t = "str")
        => LET path == Str("projects/" \o config["PROJECT_ID"].v
                           \o "/locations/" \o config["DATA_STORE_REGION"].v
                           \o "/collections/default_collection/dataStores/"
                           \o config["DATA_STORE_ID"].v)
           IN  /\ config["VERTEX_AI_SEARCH_DATASTORE"] = path
               /\ Bound(agent, "search_tool") => agent["search_tool"].data_store_id = path

\* The search tool is bound to a path synthesized from a region and a
\* datastore id that the environment sets.
C3_Witness ==
    /\ Bound(agent, "search_tool")
    /\ "VERTEX_AI_SEARCH_DATASTORE" \notin DOMAIN EffectiveEnv
    /\ config["PROJECT_ID"] = Str("adc-project")
    /\ config["DATA_STORE_REGION"] = Str("eu")
    /\ config["DATA_STORE_ID"] = Str("contracts")

----------------------------------------------------------------------------
(* C4 *)

\* The setting is the variable's value when it is set and the default otherwise.
ResolvedAs(name, default) ==
    Bound(config, name) =>
        config[name] = IF name \in DOMAIN EffectiveEnv THEN Str(EffectiveEnv[name])
                       ELSE Str(default)

----------------------------------------------------------------------------
(* C5 *)

\* C5 as stated: after a credential failure, in config.py or in agent.py, there
\* is no setting, no tool binding, no agent and no app.
C5_NothingProduced ==
    error.type = "DefaultCredentialsError" =>
        /\ NoneBound(config, ConfigNames)
        /\ NoneBound(agent, {"search_tool", "bigquery_toolset", "root_agent", "app"})

\* C5, amended: a credential failure ends the import for good with no global of
\* agent.py bound; no setting is resolved when it happens in config.py, and
\* every setting is already resolved when it happens in agent.py.
C5_AbortsWithoutAgent ==
    [][/\ error'.type = "DefaultCredentialsError" =>
             /\ pc' = "failed"
             /\ NoneBound(agent', AgentNames)
             /\ IF error'.at = "config:12" THEN NoneBound(config', ConfigNames)
                ELSE error'.at = "agent:39" /\ AllBound(config', ConfigNames)
       /\ pc = "failed" =>
             /\ pc' = "failed"
             /\ error' = error
             /\ config' = config
             /\ agent' = agent
             /\ environ' = environ]_vars

\* The second resolution failed, and a day passed afterwards.
C5_Witness ==
    /\ pc = "failed"
    /\ error = [type |-> "DefaultCredentialsError", at |-> "agent:39"]
    /\ AllBound(config, ConfigNames)
    /\ clock \notin StartDays

----------------------------------------------------------------------------
(* C6 *)

\* C6: nothing is built from a required value that is missing: no synthesized
\* datastore path without a datastore id, no instruction text and no agent
\* without a dataset id and a table id.
C6_MissingRequiredIsFatal ==
    /\ (/\ Bound(config, "VERTEX_AI_SEARCH_DATASTORE")
        /\ "VERTEX_AI_SEARCH_DATASTORE" \notin DOMAIN EffectiveEnv)
          => config["DATA_STORE_ID"] # None
    /\ Bound(agent, "INSTRUCTION") =>
          config["BQ_DATASET_ID"] # None /\ config["BQ_TABLE_ID"] # None
    /\ Bound(agent, "root_agent") =>
          config["BQ_DATASET_ID"] # None /\ config["BQ_TABLE_ID"] # None

----------------------------------------------------------------------------
(* C7 *)

\* The text carries the date as YYYY-MM-DD and the three ids after their labels.
InstructionCarries(text, date, project, dataset, table) ==
    LET at_date == Len(Text0) + 1
        stamp == SubSeq(text, at_date, at_date + 9)
        at_project == at_date + 10 + Len(Text1)
        at_dataset == at_project + Len(project) + Len(Text2)
        at_table == at_dataset + Len(dataset) + Len(Text3)
        at_sql_dataset == at_table + Len(table) + Len(Text4)
        at_sql_table == at_sql_dataset + Len(dataset) + Len(Text5)
    IN  /\ SubSeq(text, at_date - 17, at_date - 1) = "Today's date is: "
        /\ IsNumeral(SubSeq(stamp, 1, 4)) /\ NumeralValue(SubSeq(stamp, 1, 4)) = date.year
        /\ SubSeq(stamp, 5, 5) = "-"
        /\ IsNumeral(SubSeq(stamp, 6, 7)) /\ NumeralValue(SubSeq(stamp, 6, 7)) = date.month
        /\ SubSeq(stamp, 8, 8) = "-"
        /\ IsNumeral(SubSeq(stamp, 9, 10)) /\ NumeralValue(SubSeq(stamp, 9, 10)) = date.day
        /\ FieldAt(text, at_project, "   - Project: ", project)
        /\ FieldAt(text, at_dataset, "\n   - Dataset: ", dataset)
        /\ FieldAt(text, at_table, "\n   - Table: ", table)
        /\ FieldAt(text, at_sql_dataset, "SELECT * FROM ", dataset \o ".")
        /\ FieldAt(text, at_sql_table, ".", table \o " WHERE ")
        /\ Len(text) = at_sql_table + Len(table) + Len(Text6) - 1

\* C7: the instruction text, when it is built, carries the date of that moment
\* as YYYY-MM-DD and the resolved project, dataset and table ids at their
\* places, the last two also as dataset.table in the example SQL; and the agent
\* is built with this text and with the resolved MODEL_NAME.
C7_InstructionText ==
    [][/\ (~Bound(agent, "INSTRUCTION") /\ Bound(agent', "INSTRUCTION")) =>
             /\ agent'["INSTRUCTION"].t = "str"
             /\ InstructionCarries(agent'["INSTRUCTION"].v, date_today(clock),
                                   format(config["PROJECT_ID"]),
                                   format(config["BQ_DATASET_ID"]),
                                   format(config["BQ_TABLE_ID"]))
       /\ Bound(agent', "root_agent") =>
             /\ agent'["root_agent"].instruction = agent'["INSTRUCTION"]
             /\ agent'["root_agent"].model = config'["MODEL_NAME"]]_vars

\* The agent holds a text built on 2026-01-01 for vendor_ds.spend.
C7_Witness ==
    /\ Bound(agent, "root_agent")
    /\ config["BQ_DATASET_ID"] = Str("vendor_ds")
    /\ config["BQ_TABLE_ID"] = Str("spend")
    /\ SubSeq(agent["root_agent"].instruction.v, Len(Text0) + 1, Len(Text0) + 10) = "2026-01-01"

----------------------------------------------------------------------------
(* C8 *)

\* Settings come before the tool bindings, these before the instruction text,
\* the text before the agent, the agent before the app.
InOrder ==
    /\ (Bound(agent, "search_tool") \/ Bound(agent, "bigquery_toolset"))
          => AllBound(config, ConfigNames)
    /\ Bound(agent, "INSTRUCTION")
          => Bound(agent, "search_tool") /\ Bound(agent, "bigquery_toolset")
    /\ Bound(agent, "root_agent") => Bound(agent, "INSTRUCTION")
    /\ Bound(agent, "app") => Bound(agent, "root_agent")
    /\ pc = "done" => AllBound(config, ConfigNames) /\ AllBound(agent, AgentNames)

\* C8: every setting, binding and text is resolved once, in the order settings,
\* tool bindings, instruction, agent, app; and once start-up is complete no
\* change of the environment and no passing day changes any of them.
C8_ResolvedOnce ==
    [][/\ \A n \in ConfigNames : Bound(config, n) => config'[n] = config[n]
       /\ \A n \in AgentNames : Bound(agent, n) => agent'[n] = agent[n]
       /\ InOrder'
       /\ pc = "done" => pc' = "done" /\ config' = config /\ agent' = agent]_vars

\* After start-up the environment's MODEL_NAME and the date have both moved
\* away from what the settings and the instruction text hold.
C8_Witness ==
    /\ pc = "done"
    /\ nchanges > 0
    /\ getenv(environ, "MODEL_NAME", None) # getenv(EffectiveEnv, "MODEL_NAME", None)
    /\ SubSeq(agent["INSTRUCTION"].v, Len(Text0) + 1, Len(Text0) + 10)
          # strftime(date_today(clock))

----------------------------------------------------------------------------
(* C9 *)

\* The default config.py gives a Google variable.
GoogleDefault(name) ==
    CASE name = "GOOGLE_CLOUD_PROJECT" -> format(config["PROJECT_ID"])
      [] name = "GOOGLE_CLOUD_LOCATION" -> "global"
      [] name = "GOOGLE_GENAI_USE_VERTEXAI" -> "True"

\* C9 as stated, with the entries load_dotenv adds counted as part of the
\* environment before resolution: each of the three Google variables that was
\* set keeps its value, each that was unset has its default, and every other
\* variable is as it was.
C9_OnlyDefaults ==
    ConfigFinished =>
        /\ \A k \in GoogleNames :
              /\ k \in DOMAIN environ
              /\ k \in DOMAIN environ0 => environ[k] = environ0[k]
              /\ k \notin DOMAIN EffectiveEnv => environ[k] = GoogleDefault(k)
        /\ \A k \in EnvNames \ GoogleNames :
              getenv(environ, k, None) = getenv(EffectiveEnv, k, None)

\* C9, amended: after settings resolution GOOGLE_CLOUD_LOCATION is "global" and
\* GOOGLE_GENAI_USE_VERTEXAI is "True" whatever they were; every other variable
\* that was set keeps its value; a variable that was unset and is in the .env
\* file has the file's value; GOOGLE_CLOUD_PROJECT, if still unset, has the
\* detected project id; and no other variable is set.
C9_EnvironmentAfterConfig ==
    ConfigFinished =>
        /\ DOMAIN environ = DOMAIN environ0 \cup DOMAIN dotenv \cup GoogleNames
        /\ \A k \in DOMAIN environ :
              environ[k] =
                  IF k \in {"GOOGLE_CLOUD_LOCATION", "GOOGLE_GENAI_USE_VERTEXAI"}
                  THEN GoogleDefault(k)
                  ELSE IF k \in DOMAIN environ0 THEN environ0[k]
                  ELSE IF k \in DOMAIN dotenv THEN dotenv[k]
                  ELSE GoogleDefault(k)
        /\ "GOOGLE_CLOUD_PROJECT" \notin DOMAIN EffectiveEnv => config["PROJECT_ID"].t = "str"

\* GOOGLE_CLOUD_LOCATION was us-central1 before config.py and is global after.
C9_Witness ==
    /\ ConfigFinished
    /\ "GOOGLE_CLOUD_LOCATION" \in DOMAIN environ0
    /\ environ0["GOOGLE_CLOUD_LOCATION"] = "us-central1"
    /\ environ["GOOGLE_CLOUD_LOCATION"] = "global"

----------------------------------------------------------------------------
(* C10 *)

\* C10: at config.py:13, with GOOGLE_CLOUD_PROJECT unset and a project id of
\* None, the import fails there with only PROJECT_ID bound, and nothing is
\* bound afterwards; with GOOGLE_CLOUD_PROJECT set, the statement completes and
\* leaves the environment as it was.
C10_NoProjectId ==
    [][/\ (pc = "config:13" /\ pc' # pc) =>
             IF "GOOGLE_CLOUD_PROJECT" \in DOMAIN environ
             THEN pc' = "config:14" /\ environ' = environ /\ error' = NoError
             ELSE config["PROJECT_ID"] = None =>
                     /\ pc' = "failed"
                     /\ error' = [type |-> "TypeError", at |-> "config:13"]
                     /\ environ' = environ
                     /\ NoneBound(config', ConfigNames \ {"PROJECT_ID"})
                     /\ NoneBound(agent', AgentNames)
       /\ error.type = "TypeError" =>
             pc' = "failed" /\ error' = error /\ config' = config /\ agent' = agent]_vars

\* The import failed at config.py:13 and a day passed afterwards.
C10_Witness ==
    /\ error = [type |-> "TypeError", at |-> "config:13"]
    /\ config["PROJECT_ID"] = None
    /\ "GOOGLE_CLOUD_PROJECT" \notin DOMAIN environ
    /\ clock \notin StartDays

====
